---------------------------- MODULE Spec2Model ----------------------------
(***************************************************************************)
(* A model of the news-briefing pipeline:                                  *)
(*   - streamlit_app.py: the cooldown gate run_all_cooldown and the        *)
(*     Metadata row helpers get_last_run_info / set_last_run_info;         *)
(*   - data_retrieval_storage_news_engine.py: main, fetch_google_trends    *)
(*     (retry with backoff), dedupe_rows, _grab_desc and                   *)
(*     fetch_meta_descriptions (bounded fan-out), the news / top stories   *)
(*     blocks of store_data_in_google_sheets, ensure_worksheet_exists and  *)
(*     overwrite_worksheet;                                                *)
(*   - step2_summarisation_with_easier_reading.py: generate_summary.       *)
(*                                                                         *)
(* The module holds six state machines over disjoint variables:            *)
(*   Spec        the cooldown gate, two sessions sharing the Metadata row  *)
(*   SpecTrends  main()'s three fetches with the trends retry loop         *)
(*   SpecDedupe  the loop of dedupe_rows                                   *)
(*   SpecEnrich  one call of fetch_meta_descriptions                       *)
(*   SpecStore   one news / top stories block of the storage orchestrator  *)
(*   SpecSheet   ensure_worksheet_exists and overwrite_worksheet on one    *)
(*               worksheet                                                 *)
(* Each specification leaves the variables of the others untouched.        *)
(***************************************************************************)
EXTENDS Integers, Sequences, FiniteSets, TLC

VARIABLES
    \* ---- the cooldown gate (streamlit_app.py) ----
    clock,              \* wall clock, in ticks (TicksPerSecond per second)
    metaA2,             \* Metadata!A2: Some(timestamp text), or Absent if empty
    metaB2,             \* Metadata!B2: the stored summary text, or NoneVal
    a2_run,             \* the run that wrote Metadata!A2 (0: an earlier one)
    invocations,        \* number of run_all_cooldown calls started so far
    pc,                 \* session -> position in run_all_cooldown
    cooldown_hours,     \* session -> the call's parameter
    now_utc,            \* session -> local now_utc (line 165)
    last_run_time_str,  \* session -> local of get_last_run_info (line 113)
    last_run_utc,       \* session -> local last_run_utc (line 168)
    last_summary,       \* session -> local last_summary (line 168)
    summary_text,       \* session -> local summary_text (line 190)
    result,             \* session -> what the call returned
    err,                \* session -> the exception the call ended with
    calls,              \* session -> remote calls completed by this call
    run,                \* session -> number of this invocation
    \* ---- main() and fetch_google_trends (the engine) ----
    mpc,                \* position in main()
    news_data,          \* local news_data (line 255)
    top_stories_data,   \* local top_stories_data (line 256)
    attempts,           \* local attempts of fetch_google_trends
    sleeps,             \* the time.sleep(wait) calls made, in order
    tcalls,             \* number of GoogleSearch(params).get_dict() calls made
    searches,           \* every search call made and how it ended, in order
    results,            \* local results: the response of the last good call
    trends_ret,         \* what fetch_google_trends returned: (rising, top)
    merr,               \* the exception main() ended with
    written,            \* the worksheets overwritten by this run, in order
    \* ---- dedupe_rows ----
    dpc,                \* position in dedupe_rows
    rows,               \* parameter rows
    key_index,          \* parameter key_index (0-based, as in Python)
    keep_n,             \* parameter keep_n
    idx,                \* number of rows the for loop has taken
    seen,               \* local seen
    out,                \* local out
    \* ---- fetch_meta_descriptions ----
    epc,                \* position of the caller of fetch_meta_descriptions
    urls,               \* parameter urls
    limit,              \* parameter limit
    sem,                \* the semaphore's free permits
    task,               \* index -> state of the task bound(urls[index])
    resp,               \* index -> what session.get ended with
    ret,                \* index -> what the task returned
    gets,               \* index -> number of session.get calls made
    finished,           \* the indexes of the finished tasks, in finishing order
    gathered,           \* what fetch_meta_descriptions returned
    \* ---- store_data_in_google_sheets: a news / top stories block ----
    spc,                \* position in the block
    section,            \* the block: "Google News" or "Top Stories"
    records,            \* parameter news_data / top_stories_data
    news_rows,          \* local news_rows / top_rows
    snippet_lookup,     \* local snippet_lookup_news / snippet_lookup_top
    news_meta,          \* local news_meta / top_meta
    meta_kind,          \* index -> how the fetch of the row's link ended
    zipped,             \* number of rows the zip loop has taken
    sheet_rows,         \* the body rows handed to overwrite_worksheet
    \* ---- ensure_worksheet_exists and overwrite_worksheet ----
    wpc,                \* position in the two calls
    ws,                 \* the worksheet of the title: Absent, or its grid
    header,             \* parameter header
    body,               \* parameter rows
    writes,             \* number of overwrite_worksheet calls completed
    first_grid          \* the grid as the first call left it

gateVars == <<clock, metaA2, metaB2, a2_run, invocations, pc,
              cooldown_hours, now_utc, last_run_time_str, last_run_utc,
              last_summary, summary_text, result, err, calls, run>>

trendVars == <<mpc, news_data, top_stories_data, attempts, sleeps, tcalls,
               searches, results, trends_ret, merr, written>>

dedupeVars == <<dpc, rows, key_index, keep_n, idx, seen, out>>

enrichVars == <<epc, urls, limit, sem, task, resp, ret, gets, finished,
                gathered>>

storeVars == <<spc, section, records, news_rows, snippet_lookup, news_meta,
               meta_kind, zipped, sheet_rows>>

sheetVars == <<wpc, ws, header, body, writes, first_grid>>

vars == <<gateVars, trendVars, dedupeVars, enrichVars, storeVars, sheetVars>>

\* Python's None where a text is expected
NoneVal == <<"None">>

\* an optional structured value: None is the empty tuple, a value v is <<v>>
Absent == <<>>
Some(v) == <<v>>
Val(o) == o[1]

-----------------------------------------------------------------------------
(* Bounds of the model *)

TicksPerSecond == 2     \* clock resolution below the stored format's second
MaxSubTicks    == 1     \* sub-second ticks the clock may take within an hour
MaxHours       == 4     \* the clock stops at this many hours
MaxInvocations == 2     \* calls of run_all_cooldown in one behaviour

(* Program constants *)

SecondsPerHour   == 3600    \* total_seconds() / 3600.0
NeverRunElapsed  == 9999    \* elapsed_hours when there is no previous run
DefaultCooldown  == 3       \* cooldown_hours=3

HourTicks == SecondsPerHour * TicksPerSecond

Sessions     == {"s1", "s2"}

\* the text the language model returns in run r (run 0: before the model starts)
SummaryOf(r) == <<"brief of run", r>>
CooldownChoices == {DefaultCooldown, NeverRunElapsed + 1}

-----------------------------------------------------------------------------
(* datetime values: a point in time and whether tzinfo is attached *)

Naive(t) == [t |-> t, aware |-> FALSE]
Aware(t) == [t |-> t, aware |-> TRUE]

\* dt.datetime.utcnow(): a naive datetime holding the UTC wall clock
UtcNow == Naive(clock)

\* strftime("%Y-%m-%d %H:%M:%S"): the text keeps whole seconds only
Strftime(d) == [secs |-> d.t \div TicksPerSecond]

\* strptime(s, "%Y-%m-%d %H:%M:%S"): a naive datetime at that second
Strptime(s) == Naive(s.secs * TicksPerSecond)

\* pytz.utc.localize(naive_dt): the same instant, tz-aware
Localize(d) == Aware(d.t)

\* datetime.__sub__: naive and aware operands cannot be subtracted
CanSubtract(a, b) == a.aware = b.aware
SubtractTicks(a, b) == a.t - b.t


-----------------------------------------------------------------------------
(* The cooldown gate: run_all_cooldown and the Metadata helpers *)

\* positions of one call whose next step is a remote call that may raise
RemoteSteps == {"get_a2", "get_b2", "fetch", "store_news", "store_top",
                "store_rising", "store_trends_top", "read_sheets", "llm",
                "append_summary", "set_a2", "set_b2"}

StorePc == <<"store_news", "store_top", "store_rising", "store_trends_top">>

\* lines 170-174: the subtraction is evaluated only when a run was recorded
SubtractionRaises(p) ==
    /\ last_run_utc[p] # Absent
    /\ ~CanSubtract(now_utc[p], Val(last_run_utc[p]))

\* lines 170-174: elapsed time in ticks (elapsed_hours * HourTicks)
ElapsedTicks(p) ==
    IF last_run_utc[p] # Absent
    THEN SubtractTicks(now_utc[p], Val(last_run_utc[p]))
    ELSE NeverRunElapsed * HourTicks

\* line 176: elapsed_hours < cooldown_hours
TooSoon(p) == ElapsedTicks(p) < cooldown_hours[p] * HourTicks

\* line 179: remain = cooldown_hours - elapsed_hours, in ticks
RemainTicks(p) == cooldown_hours[p] * HourTicks - ElapsedTicks(p)

Logged(p, what) == calls' = [calls EXCEPT ![p] = Append(@, what)]

GateInit ==
    /\ clock = 0
    /\ \E row \in {<<Absent, NoneVal>>,
                    <<Some(Strftime(Naive(0))), SummaryOf(0)>>} :
          /\ metaA2 = row[1]
          /\ metaB2 = row[2]
    /\ a2_run = 0
    /\ invocations = 0
    /\ pc = [p \in Sessions |-> "idle"]
    /\ cooldown_hours = [p \in Sessions |-> DefaultCooldown]
    /\ now_utc = [p \in Sessions |-> Naive(0)]
    /\ last_run_time_str = [p \in Sessions |-> Absent]
    /\ last_run_utc = [p \in Sessions |-> Absent]
    /\ last_summary = [p \in Sessions |-> NoneVal]
    /\ summary_text = [p \in Sessions |-> NoneVal]
    /\ result = [p \in Sessions |-> Absent]
    /\ err = [p \in Sessions |-> ""]
    /\ calls = [p \in Sessions |-> <<>>]
    /\ run = [p \in Sessions |-> 0]

\* time passes by less than a second
TickSmall ==
    /\ clock % HourTicks < MaxSubTicks
    /\ clock' = clock + 1
    /\ UNCHANGED <<metaA2, metaB2, a2_run, invocations, pc,
                   cooldown_hours, now_utc, last_run_time_str, last_run_utc,
                   last_summary, summary_text, result, err, calls, run>>
    /\ UNCHANGED <<trendVars, dedupeVars, enrichVars, storeVars, sheetVars>>

\* time passes by two hours
TickHours ==
    /\ clock \div HourTicks + 2 <= MaxHours
    /\ clock' = clock + 2 * HourTicks
    /\ UNCHANGED <<metaA2, metaB2, a2_run, invocations, pc,
                   cooldown_hours, now_utc, last_run_time_str, last_run_utc,
                   last_summary, summary_text, result, err, calls, run>>
    /\ UNCHANGED <<trendVars, dedupeVars, enrichVars, storeVars, sheetVars>>

\* the button is pressed: run_all_cooldown(sheet, ch) starts (line 165)
Invoke(p) ==
    /\ pc[p] \in {"idle", "done", "raised"}
    /\ invocations < MaxInvocations
    /\ \E ch \in CooldownChoices :
          cooldown_hours' = [cooldown_hours EXCEPT ![p] = ch]
    /\ invocations' = invocations + 1
    /\ run' = [run EXCEPT ![p] = invocations + 1]
    /\ now_utc' = [now_utc EXCEPT ![p] = UtcNow]
    /\ last_run_time_str' = [last_run_time_str EXCEPT ![p] = Absent]
    /\ last_run_utc' = [last_run_utc EXCEPT ![p] = Absent]
    /\ last_summary' = [last_summary EXCEPT ![p] = NoneVal]
    /\ summary_text' = [summary_text EXCEPT ![p] = NoneVal]
    /\ result' = [result EXCEPT ![p] = Absent]
    /\ err' = [err EXCEPT ![p] = ""]
    /\ calls' = [calls EXCEPT ![p] = <<>>]
    /\ pc' = [pc EXCEPT ![p] = "get_a2"]
    /\ UNCHANGED <<clock, metaA2, a2_run, metaB2>>
    /\ UNCHANGED <<trendVars, dedupeVars, enrichVars, storeVars, sheetVars>>

\* get_last_run_info, line 113: metadata_ws.cell(2, 1).value
ReadA2(p) ==
    /\ pc[p] = "get_a2"
    /\ last_run_time_str' = [last_run_time_str EXCEPT ![p] = metaA2]
    /\ Logged(p, "cell A2")
    /\ pc' = [pc EXCEPT ![p] = "get_b2"]
    /\ UNCHANGED <<clock, metaA2, a2_run, metaB2, invocations,
                   cooldown_hours, now_utc, last_run_utc, last_summary,
                   summary_text, result, err, run>>
    /\ UNCHANGED <<trendVars, dedupeVars, enrichVars, storeVars, sheetVars>>

\* get_last_run_info, lines 114-124: read B2, then parse and localize A2
ReadB2(p) ==
    /\ pc[p] = "get_b2"
    /\ last_summary' = [last_summary EXCEPT ![p] = metaB2]
    /\ last_run_utc' = [last_run_utc EXCEPT ![p] =
          IF last_run_time_str[p] # Absent
          THEN Some(Localize(Strptime(Val(last_run_time_str[p]))))
          ELSE Absent]
    /\ Logged(p, "cell B2")
    /\ pc' = [pc EXCEPT ![p] = "gate"]
    /\ UNCHANGED <<clock, metaA2, a2_run, metaB2, invocations,
                   cooldown_hours, now_utc, last_run_time_str, summary_text,
                   result, err, run>>
    /\ UNCHANGED <<trendVars, dedupeVars, enrichVars, storeVars, sheetVars>>

\* line 171: now_utc - last_run_utc raises TypeError
GateRaises(p) ==
    /\ pc[p] = "gate"
    /\ SubtractionRaises(p)
    /\ err' = [err EXCEPT ![p] = "TypeError"]
    /\ pc' = [pc EXCEPT ![p] = "raised"]
    /\ UNCHANGED <<clock, metaA2, a2_run, metaB2, invocations,
                   cooldown_hours, now_utc, last_run_time_str, last_run_utc,
                   last_summary, summary_text, result, calls, run>>
    /\ UNCHANGED <<trendVars, dedupeVars, enrichVars, storeVars, sheetVars>>

\* lines 176-182: too soon, return the existing summary
GateCooling(p) ==
    /\ pc[p] = "gate"
    /\ ~SubtractionRaises(p)
    /\ TooSoon(p)
    /\ result' = [result EXCEPT ![p] =
          Some([kind |-> "cached", summary |-> last_summary[p],
                remain |-> RemainTicks(p)])]
    /\ pc' = [pc EXCEPT ![p] = "done"]
    /\ UNCHANGED <<clock, metaA2, a2_run, metaB2, invocations,
                   cooldown_hours, now_utc, last_run_time_str, last_run_utc,
                   last_summary, summary_text, err, calls, run>>
    /\ UNCHANGED <<trendVars, dedupeVars, enrichVars, storeVars, sheetVars>>

\* lines 184-187: enough time has passed, start the pipeline
GateReady(p) ==
    /\ pc[p] = "gate"
    /\ ~SubtractionRaises(p)
    /\ ~TooSoon(p)
    /\ pc' = [pc EXCEPT ![p] = "fetch"]
    /\ UNCHANGED <<clock, metaA2, a2_run, metaB2, invocations,
                   cooldown_hours, now_utc, last_run_time_str, last_run_utc,
                   last_summary, summary_text, result, err, calls, run>>
    /\ UNCHANGED <<trendVars, dedupeVars, enrichVars, storeVars, sheetVars>>

\* retrieve_and_store_data, lines 255-257 of the engine: the three fetches
Fetch(p) ==
    /\ pc[p] = "fetch"
    /\ calls' = [calls EXCEPT ![p] = @ \o <<"fetch_google_news",
                    "fetch_google_top_stories", "fetch_google_trends">>]
    /\ pc' = [pc EXCEPT ![p] = StorePc[1]]
    /\ UNCHANGED <<clock, metaA2, a2_run, metaB2, invocations,
                   cooldown_hours, now_utc, last_run_time_str, last_run_utc,
                   last_summary, summary_text, result, err, run>>
    /\ UNCHANGED <<trendVars, dedupeVars, enrichVars, storeVars, sheetVars>>

\* store_data_in_google_sheets: the i-th overwrite_worksheet of the run
StoreSheet(p) ==
    \E i \in 1..Len(StorePc) :
        /\ pc[p] = StorePc[i]
        /\ Logged(p, "overwrite_worksheet")
        /\ pc' = [pc EXCEPT ![p] =
              IF i < Len(StorePc) THEN StorePc[i + 1] ELSE "read_sheets"]
        /\ UNCHANGED <<clock, metaA2, a2_run, metaB2, invocations,
                       cooldown_hours, now_utc, last_run_time_str,
                       last_run_utc, last_summary, summary_text, result, err,
                       run>>
        /\ UNCHANGED <<trendVars, dedupeVars, enrichVars, storeVars,
                       sheetVars>>

\* generate_summary, lines 155-161: read the four data worksheets
ReadSheets(p) ==
    /\ pc[p] = "read_sheets"
    /\ Logged(p, "read_data")
    /\ pc' = [pc EXCEPT ![p] = "llm"]
    /\ UNCHANGED <<clock, metaA2, a2_run, metaB2, invocations,
                   cooldown_hours, now_utc, last_run_time_str, last_run_utc,
                   last_summary, summary_text, result, err, run>>
    /\ UNCHANGED <<trendVars, dedupeVars, enrichVars, storeVars, sheetVars>>

\* generate_summary, line 164: the language model answers with a text
Summarize(p) ==
    /\ pc[p] = "llm"
    /\ summary_text' = [summary_text EXCEPT ![p] = SummaryOf(run[p])]
    /\ Logged(p, "summarize_data")
    /\ pc' = [pc EXCEPT ![p] = "append_summary"]
    /\ UNCHANGED <<clock, metaA2, a2_run, metaB2, invocations,
                   cooldown_hours, now_utc, last_run_time_str, last_run_utc,
                   last_summary, result, err, run>>
    /\ UNCHANGED <<trendVars, dedupeVars, enrichVars, storeVars, sheetVars>>

\* generate_summary, line 167: append the summary to "Summaries"
AppendSummary(p) ==
    /\ pc[p] = "append_summary"
    /\ Logged(p, "append_row")
    /\ pc' = [pc EXCEPT ![p] = "set_a2"]
    /\ UNCHANGED <<clock, metaA2, a2_run, metaB2, invocations,
                   cooldown_hours, now_utc, last_run_time_str, last_run_utc,
                   last_summary, summary_text, result, err, run>>
    /\ UNCHANGED <<trendVars, dedupeVars, enrichVars, storeVars, sheetVars>>

\* set_last_run_info, lines 134-139: update_cell(2, 1, run_time_str)
SetA2(p) ==
    /\ pc[p] = "set_a2"
    /\ metaA2' = Some(Strftime(UtcNow))
    /\ a2_run' = run[p]
    /\ Logged(p, "update A2")
    /\ pc' = [pc EXCEPT ![p] = "set_b2"]
    /\ UNCHANGED <<clock, metaB2, invocations,
                   cooldown_hours, now_utc, last_run_time_str, last_run_utc,
                   last_summary, summary_text, result, err, run>>
    /\ UNCHANGED <<trendVars, dedupeVars, enrichVars, storeVars, sheetVars>>

\* set_last_run_info, line 140: update_cell(2, 2, summary_text); line 194
SetB2(p) ==
    /\ pc[p] = "set_b2"
    /\ metaB2' = summary_text[p]
    /\ Logged(p, "update B2")
    /\ result' = [result EXCEPT ![p] =
          Some([kind |-> "fresh", summary |-> summary_text[p],
                remain |-> 0])]
    /\ pc' = [pc EXCEPT ![p] = "done"]
    /\ UNCHANGED <<clock, metaA2, a2_run, invocations,
                   cooldown_hours, now_utc, last_run_time_str, last_run_utc,
                   last_summary, summary_text, err, run>>
    /\ UNCHANGED <<trendVars, dedupeVars, enrichVars, storeVars, sheetVars>>

\* the remote call at the current position raises; nothing catches it
RemoteFails(p) ==
    /\ pc[p] \in RemoteSteps
    /\ err' = [err EXCEPT ![p] = "APIError"]
    /\ pc' = [pc EXCEPT ![p] = "raised"]
    /\ UNCHANGED <<clock, metaA2, a2_run, metaB2, invocations,
                   cooldown_hours, now_utc, last_run_time_str, last_run_utc,
                   last_summary, summary_text, result, calls, run>>
    /\ UNCHANGED <<trendVars, dedupeVars, enrichVars, storeVars, sheetVars>>

GateNext ==
    \/ TickSmall
    \/ TickHours
    \/ \E p \in Sessions : Invoke(p)
    \/ \E p \in Sessions : ReadA2(p)
    \/ \E p \in Sessions : ReadB2(p)
    \/ \E p \in Sessions : GateRaises(p)
    \/ \E p \in Sessions : GateCooling(p)
    \/ \E p \in Sessions : GateReady(p)
    \/ \E p \in Sessions : Fetch(p)
    \/ \E p \in Sessions : StoreSheet(p)
    \/ \E p \in Sessions : ReadSheets(p)
    \/ \E p \in Sessions : Summarize(p)
    \/ \E p \in Sessions : AppendSummary(p)
    \/ \E p \in Sessions : SetA2(p)
    \/ \E p \in Sessions : SetB2(p)
    \/ \E p \in Sessions : RemoteFails(p)

-----------------------------------------------------------------------------
(* main() of the engine: the three fetches, the trends retry loop, the store *)

MaxAttempts == 5    \* while attempts < 5
BaseWait    == 10   \* wait = (2 ** attempts) * 10

DataSheets == <<"Google News", "Top Stories", "Google Trends Rising",
                "Google Trends Top">>

\* what a search may answer under "news_results" / "top_stories"
RawLists == {<<>>, <<"record 1">>, <<"record 1", "record 2">>}

\* a value under "rising" / "top": the key is missing, or holds a list
QueryLists == {Absent, Some(<<>>), Some(<<"asx 200">>)}

EmptyDict == [rising |-> Absent, top |-> Absent]

\* what GoogleSearch(params).get_dict() may answer for the trends query
TrendsResponses ==
    {[related |-> Absent]} \cup
    {[related |-> Some([rising |-> r, top |-> t])] :
        r \in QueryLists, t \in QueryLists}

\* dict.get(key, default)
GetOr(o, default) == IF o = Absent THEN default ELSE Val(o)

\* lines 106-107
RisingOf(r) == GetOr(GetOr(r.related, EmptyDict).rising, <<>>)
TopOf(r)    == GetOr(GetOr(r.related, EmptyDict).top, <<>>)

RECURSIVE Pow2(_)
Pow2(n) == IF n = 0 THEN 1 ELSE 2 * Pow2(n - 1)

\* a backoff whose exponent is the number of the attempt counted from 1
WaitFromTwenty(a) == Pow2(a + 1) * BaseWait

\* a backoff that grows linearly instead of doubling
WaitLinear(a) == (a + 1) * BaseWait

\* line 110
Wait(a) == Pow2(a) * BaseWait

\* a loop that admits one attempt too many
MayAttemptInclusive(a) == a <= MaxAttempts

\* line 103: the loop condition
MayAttempt(a) == a < MaxAttempts

\* what a search call may raise: the rate-limit signal or anything else
SearchErrors == {"TooManyRequestsError", "SearchError"}

\* a handler that takes every exception for a rate limit
CaughtAny(e) == TRUE

\* line 109: except TooManyRequestsError
Caught(e) == e = "TooManyRequestsError"

Searched(endpoint, outcome) ==
    searches' = Append(searches, [endpoint |-> endpoint, outcome |-> outcome])

TrendsInit ==
    /\ mpc = "news"
    /\ news_data = <<>>
    /\ top_stories_data = <<>>
    /\ attempts = 0
    /\ sleeps = <<>>
    /\ tcalls = 0
    /\ searches = <<>>
    /\ results = Absent
    /\ trends_ret = Absent
    /\ merr = ""
    /\ written = <<>>

\* line 255: fetch_google_news() returns the news_results list
FetchNews ==
    /\ mpc = "news"
    /\ \E r \in RawLists : news_data' = r
    /\ Searched("news", "ok")
    /\ mpc' = "top"
    /\ UNCHANGED <<top_stories_data, attempts, sleeps, tcalls, results,
                   trends_ret, merr, written>>
    /\ UNCHANGED <<gateVars, dedupeVars, enrichVars, storeVars, sheetVars>>

\* line 256: fetch_google_top_stories() returns the top_stories list
FetchTopStories ==
    /\ mpc = "top"
    /\ \E r \in RawLists : top_stories_data' = r
    /\ Searched("top", "ok")
    /\ mpc' = "trends"
    /\ UNCHANGED <<news_data, attempts, sleeps, tcalls, results, trends_ret,
                   merr, written>>
    /\ UNCHANGED <<gateVars, dedupeVars, enrichVars, storeVars, sheetVars>>

\* lines 78, 88: the single search call raises; main() does not catch it
SearchFails ==
    /\ mpc \in {"news", "top"}
    /\ \E e \in SearchErrors :
          /\ Searched(mpc, e)
          /\ merr' = e
    /\ mpc' = "raised"
    /\ UNCHANGED <<news_data, top_stories_data, attempts, sleeps, tcalls,
                   results, trends_ret, written>>
    /\ UNCHANGED <<gateVars, dedupeVars, enrichVars, storeVars, sheetVars>>

\* lines 103-108: the call succeeds, return (rising, top)
TrendsOk ==
    /\ mpc = "trends"
    /\ MayAttempt(attempts)
    /\ tcalls' = tcalls + 1
    /\ Searched("trends", "ok")
    /\ \E r \in TrendsResponses :
          /\ results' = Some(r)
          /\ trends_ret' = Some(<<RisingOf(r), TopOf(r)>>)
    /\ mpc' = "store"
    /\ UNCHANGED <<news_data, top_stories_data, attempts, sleeps, merr,
                   written>>
    /\ UNCHANGED <<gateVars, dedupeVars, enrichVars, storeVars, sheetVars>>

\* lines 103-113: the call raises what line 109 catches (the rate-limit
\* signal): sleep and count the attempt
TrendsRateLimited ==
    /\ mpc = "trends"
    /\ MayAttempt(attempts)
    /\ \E e \in SearchErrors : Caught(e) /\ Searched("trends", e)
    /\ tcalls' = tcalls + 1
    /\ sleeps' = Append(sleeps, Wait(attempts))
    /\ attempts' = attempts + 1
    /\ UNCHANGED <<mpc, news_data, top_stories_data, results, trends_ret,
                   merr, written>>
    /\ UNCHANGED <<gateVars, dedupeVars, enrichVars, storeVars, sheetVars>>

\* lines 104-109: any other exception leaves the loop and the function
TrendsOtherError ==
    /\ mpc = "trends"
    /\ MayAttempt(attempts)
    /\ tcalls' = tcalls + 1
    /\ \E e \in SearchErrors :
          /\ ~Caught(e)
          /\ Searched("trends", e)
          /\ merr' = e
    /\ mpc' = "raised"
    /\ UNCHANGED <<news_data, top_stories_data, attempts, sleeps, results,
                   trends_ret, written>>
    /\ UNCHANGED <<gateVars, dedupeVars, enrichVars, storeVars, sheetVars>>

\* line 114: the loop ended without a return
TrendsExhausted ==
    /\ mpc = "trends"
    /\ ~MayAttempt(attempts)
    /\ merr' = "RuntimeError"
    /\ mpc' = "raised"
    /\ UNCHANGED <<news_data, top_stories_data, attempts, sleeps, tcalls,
                   searches, results, trends_ret, written>>
    /\ UNCHANGED <<gateVars, dedupeVars, enrichVars, storeVars, sheetVars>>

\* a main() that starts to store while the trends fetch is still going on
StoreMayBeginEarly == mpc \in {"trends", "store"}

\* lines 255-259: the store is called once the three fetches have returned
StoreMayBegin == mpc = "store"

\* line 259: store_data_in_google_sheets overwrites the next worksheet
StoreNext ==
    /\ StoreMayBegin
    /\ written' = Append(written, DataSheets[Len(written) + 1])
    /\ mpc' = IF Len(written) + 1 = Len(DataSheets) THEN "finished"
              ELSE "store"
    /\ UNCHANGED <<news_data, top_stories_data, attempts, sleeps, tcalls,
                   searches, results, trends_ret, merr>>
    /\ UNCHANGED <<gateVars, dedupeVars, enrichVars, storeVars, sheetVars>>

\* lines 127-128: a worksheet call raises; nothing catches it
StoreFails ==
    /\ mpc = "store"
    /\ merr' = "APIError"
    /\ mpc' = "raised"
    /\ UNCHANGED <<news_data, top_stories_data, attempts, sleeps, tcalls,
                   searches, results, trends_ret, written>>
    /\ UNCHANGED <<gateVars, dedupeVars, enrichVars, storeVars, sheetVars>>

TrendsNext ==
    \/ FetchNews
    \/ FetchTopStories
    \/ SearchFails
    \/ TrendsOk
    \/ TrendsRateLimited
    \/ TrendsOtherError
    \/ TrendsExhausted
    \/ StoreNext
    \/ StoreFails

-----------------------------------------------------------------------------
(* dedupe_rows(rows, key_index, keep_n) *)

MaxRows == 3    \* longest input list
MaxCap  == 3    \* largest keep_n

FieldValues == {"a", "b", "c"}

\* a row is a list of two fields; key_index picks one of them
RowValues == {<<x, y>> : x \in FieldValues, y \in FieldValues}

RECURSIVE SeqsUpTo(_, _)
SeqsUpTo(S, n) ==
    IF n = 0 THEN {<<>>}
    ELSE LET shorter == SeqsUpTo(S, n - 1)
         IN  shorter \cup {Append(q, x) : q \in shorter, x \in S}

\* line 140: key = row[key_index], with Python's 0-based index
KeyOf(row, k) == row[k + 1]

\* line 144: len(out) >= keep_n
CapReached(o, n) == Len(o) >= n

DedupeInit ==
    /\ dpc = "loop"
    /\ rows \in SeqsUpTo(RowValues, MaxRows)
    /\ key_index \in {0, 1}
    /\ keep_n \in 0..MaxCap
    /\ idx = 0
    /\ seen = {}
    /\ out = <<>>

\* lines 139-145: the next row has a new key: keep it, then test the cap
DedupeKeep ==
    /\ dpc = "loop"
    /\ idx < Len(rows)
    /\ KeyOf(rows[idx + 1], key_index) \notin seen
    /\ seen' = seen \cup {KeyOf(rows[idx + 1], key_index)}
    /\ out' = Append(out, rows[idx + 1])
    /\ idx' = idx + 1
    /\ dpc' = IF CapReached(out', keep_n) THEN "returned" ELSE "loop"
    /\ UNCHANGED <<rows, key_index, keep_n>>
    /\ UNCHANGED <<gateVars, trendVars, enrichVars, storeVars, sheetVars>>

\* lines 139-145: the next row's key was seen: drop it, then test the cap
DedupeSkip ==
    /\ dpc = "loop"
    /\ idx < Len(rows)
    /\ KeyOf(rows[idx + 1], key_index) \in seen
    /\ idx' = idx + 1
    /\ dpc' = IF CapReached(out, keep_n) THEN "returned" ELSE "loop"
    /\ UNCHANGED <<rows, key_index, keep_n, seen, out>>
    /\ UNCHANGED <<gateVars, trendVars, enrichVars, storeVars, sheetVars>>

\* lines 139, 146: the rows are used up
DedupeEnd ==
    /\ dpc = "loop"
    /\ idx = Len(rows)
    /\ dpc' = "returned"
    /\ UNCHANGED <<rows, key_index, keep_n, idx, seen, out>>
    /\ UNCHANGED <<gateVars, trendVars, enrichVars, storeVars, sheetVars>>

DedupeNext ==
    \/ DedupeKeep
    \/ DedupeSkip
    \/ DedupeEnd

-----------------------------------------------------------------------------
(* fetch_meta_descriptions(urls, limit) and _grab_desc(session, url) *)

MaxUrls  == 3   \* longest url list
MaxLimit == 2   \* largest concurrency limit

\* texts are tuples of characters (urls) or of words (descriptions)
UrlEmpty   == <<>>
UrlNoLink  == <<"N", "o", " ", "L", "i", "n", "k">>
UrlNotAUrl == <<"n", "o", "t", "-", "a", "-", "u", "r", "l">>
UrlHttpA   == <<"h", "t", "t", "p", ":", "/", "/", "a">>
UrlHttpsB  == <<"h", "t", "t", "p", "s", ":", "/", "/", "b">>
UrlHttpFoo == <<"h", "t", "t", "p", "f", "o", "o">>

UrlChoices == {UrlEmpty, UrlNoLink, UrlNotAUrl, UrlHttpA, UrlHttpsB,
               UrlHttpFoo}

\* str.startswith
StartsWith(u, prefix) ==
    Len(u) >= Len(prefix) /\ SubSeq(u, 1, Len(prefix)) = prefix

\* the url has a scheme http or https followed by "//" and a host
HasHttpScheme(u) ==
    \/ StartsWith(u, <<"h", "t", "t", "p", ":", "/", "/">>) /\ Len(u) > 7
    \/ StartsWith(u, <<"h", "t", "t", "p", "s", ":", "/", "/">>) /\ Len(u) > 8

\* line 152 negated: url and url.startswith("http")
PassesUrlCheck(u) == u # <<>> /\ StartsWith(u, <<"h", "t", "t", "p">>)

\* the sentinels and the texts _grab_desc returns
InvalidUrl  == <<"Invalid", "URL">>
NoMetaDesc  == <<"No", "Meta", "Description">>
ErrorFetch  == <<"Error", "Fetching", "Description">>
HttpStatus(code) == <<"HTTP", code>>
\* the stripped content of the page's <meta name="description"> tag
MetaOf(u) == <<"About", "the", "page", "at">> \o u

\* what session.get(url) and the parse of its body may end with: a 200
\* page with a description, a 200 page without one, another status, or an
\* exception; httpx raises for a url without an http(s) scheme
Outcomes(u) ==
    IF HasHttpScheme(u) THEN {"meta", "nometa", "404", "exception"}
    ELSE {"exception"}

\* lines 156-166: the text for an outcome of the request
DescFor(u, outcome) ==
    CASE outcome = "404"       -> HttpStatus("404")
      [] outcome = "meta"      -> MetaOf(u)
      [] outcome = "nometa"    -> NoMetaDesc
      [] outcome = "exception" -> ErrorFetch

\* a _grab_desc without its except clause
HandledNever(o) == FALSE

\* lines 154, 165: the request and the parse run inside try, and except
\* Exception takes whatever they raise
Handled(o) == TRUE

\* a semaphore that never blocks
AlwaysPermit(s) == TRUE

\* asyncio.Semaphore.acquire proceeds while a permit is free
HasPermit(s) == s > 0

\* line 174: the i-th task is bound(u) for the i-th url
TaskUrl(i) == urls[i]

Indexes == 1..Len(urls)

\* the results in the order in which the tasks finished
CompletionList == [n \in 1..Len(finished) |-> ret[finished[n]]]

\* line 174: asyncio.gather lists the results in the order of its arguments
GatherList == [i \in Indexes |-> ret[i]]

\* tasks start in the order gather created them, waiters are woken in order
MayStart(i) ==
    /\ task[i] = "waiting"
    /\ \A j \in 1..(i - 1) : task[j] # "waiting"
    /\ HasPermit(sem)

EnrichInit ==
    /\ epc = "gathering"
    /\ urls \in SeqsUpTo(UrlChoices, MaxUrls)
    /\ limit \in 1..MaxLimit
    /\ sem = limit
    /\ task = [i \in Indexes |-> "waiting"]
    /\ resp = [i \in Indexes |-> "none"]
    /\ ret = [i \in Indexes |-> <<>>]
    /\ gets = [i \in Indexes |-> 0]
    /\ finished = <<>>
    /\ gathered = Absent

\* lines 172-173, 152-153: acquire, the url fails the check, return, release
GrabInvalid(i) ==
    /\ epc = "gathering"
    /\ MayStart(i)
    /\ ~PassesUrlCheck(TaskUrl(i))
    /\ ret' = [ret EXCEPT ![i] = InvalidUrl]
    /\ task' = [task EXCEPT ![i] = "done"]
    /\ finished' = Append(finished, i)
    /\ UNCHANGED <<epc, urls, limit, sem, resp, gets, gathered>>
    /\ UNCHANGED <<gateVars, trendVars, dedupeVars, storeVars, sheetVars>>

\* lines 172-173, 152-155: acquire, the url passes the check, send the GET
GrabRequest(i) ==
    /\ epc = "gathering"
    /\ MayStart(i)
    /\ PassesUrlCheck(TaskUrl(i))
    /\ sem' = sem - 1
    /\ gets' = [gets EXCEPT ![i] = @ + 1]
    /\ task' = [task EXCEPT ![i] = "inflight"]
    /\ UNCHANGED <<epc, urls, limit, resp, ret, finished, gathered>>
    /\ UNCHANGED <<gateVars, trendVars, dedupeVars, storeVars, sheetVars>>

\* lines 155-166, 172: the GET ends, the text is returned, release
GrabResponse(i) ==
    /\ epc = "gathering"
    /\ task[i] = "inflight"
    /\ \E o \in Outcomes(TaskUrl(i)) :
          /\ resp' = [resp EXCEPT ![i] = o]
          /\ IF o = "exception" /\ ~Handled(o)
             THEN \* the task raises and gather raises in the caller
                  /\ epc' = "raised"
                  /\ UNCHANGED ret
             ELSE /\ ret' = [ret EXCEPT ![i] = DescFor(TaskUrl(i), o)]
                  /\ UNCHANGED epc
    /\ sem' = sem + 1
    /\ task' = [task EXCEPT ![i] = "done"]
    /\ finished' = Append(finished, i)
    /\ UNCHANGED <<urls, limit, gets, gathered>>
    /\ UNCHANGED <<gateVars, trendVars, dedupeVars, storeVars, sheetVars>>

\* line 174: gather returns the tasks' results in the order of the tasks
GatherReturns ==
    /\ epc = "gathering"
    /\ \A i \in Indexes : task[i] = "done"
    /\ gathered' = Some(GatherList)
    /\ epc' = "returned"
    /\ UNCHANGED <<urls, limit, sem, task, resp, ret, gets, finished>>
    /\ UNCHANGED <<gateVars, trendVars, dedupeVars, storeVars, sheetVars>>

EnrichNext ==
    \/ \E i \in Indexes : GrabInvalid(i)
    \/ \E i \in Indexes : GrabRequest(i)
    \/ \E i \in Indexes : GrabResponse(i)
    \/ GatherReturns

-----------------------------------------------------------------------------
(* store_data_in_google_sheets: the Google News and the Top Stories block *)

MaxRecords == 2     \* longest list of raw records

CAP_NEWS        == 40
CAP_TOP_STORIES == 40

SectionSheets == {"Google News", "Top Stories"}

\* the placeholders of lines 182-184 and 208-211; "No Link" is UrlNoLink
NoTitle   == <<"No", "Title">>
NoSnippet == <<"No", "Snippet">>

\* a raw record: each key is missing (Absent) or holds a text, maybe empty
Record(t, l, s) == [title |-> t, link |-> l, snippet |-> s]

\* what the search may list under "news_results" / "top_stories"
RawRecords ==
    { Record(Some(<<"Markets", "rally">>), Some(UrlHttpA),
             Some(<<"Shares", "rose">>)),
      Record(Some(<<"Markets", "again">>), Some(UrlHttpA),
             Some(<<"Second", "take">>)),
      Record(Some(<<"Banks", "slip">>), Some(UrlHttpsB), Absent),
      Record(Some(<<"Relative", "link">>), Some(UrlNotAUrl),
             Some(<<"Odd", "link">>)),
      Record(Some(<<"Wire", "story">>), Absent, Some(<<"No", "url", "given">>)),
      Record(Some(<<>>), Some(<<>>), Some(<<>>)),
      Record(Absent, Absent, Absent) }

\* a.get(key, default): the default for a missing key only
GetWithDefault(o, default) == IF o = Absent THEN default ELSE Val(o)

\* a.get(key) or default
GetOrDefault(o, default) ==
    IF o = Absent \/ Val(o) = <<>> THEN default ELSE Val(o)

\* lines 181-186, 208-213: one row per raw record
RowOf(a) == << GetOrDefault(a.title, NoTitle),
               GetOrDefault(a.link, UrlNoLink),
               GetOrDefault(a.snippet, NoSnippet) >>

\* lines 139-145: the loop of dedupe_rows from its state (seen, out)
RECURSIVE DedupeLoop(_, _, _, _, _)
DedupeLoop(rws, k, n, sn, o) ==
    IF rws = <<>> THEN o
    ELSE LET row  == Head(rws)
             key  == KeyOf(row, k)
             o2   == IF key \in sn THEN o ELSE Append(o, row)
         IN  IF CapReached(o2, n) THEN o2
             ELSE DedupeLoop(Tail(rws), k, n, sn \cup {key}, o2)

\* a dedupe_rows that keeps every row
KeepAllRows(rws, k, n) == rws

\* lines 137-146
dedupe_rows(rws, k, n) == DedupeLoop(rws, k, n, {}, <<>>)

\* lines 190, 217: the cap of the block
CapOf(sheet) == IF sheet = "Google News" THEN CAP_NEWS ELSE CAP_TOP_STORIES

\* lines 191, 218: {r[1]: r[2] for r in rows}, a later row wins
LookupOf(rws) ==
    [l \in {rws[i][2] : i \in 1..Len(rws)} |->
        LET last == CHOOSE i \in 1..Len(rws) :
                        /\ rws[i][2] = l
                        /\ \A j \in (i + 1)..Len(rws) : rws[j][2] # l
        IN  rws[last][3]]

\* dict.get(key, default)
LookupGet(d, key, default) == IF key \in DOMAIN d THEN d[key] ELSE default

\* descriptions a page may carry in its <meta name="description"> tag
PageDescriptions(u) ==
    { MetaOf(u),
      <<"HTTP", "2", "explained", "for", "investors">>,
      <<"Error", "in", "ASX", "feed", "halts", "trading">> }

\* lines 152-166: how _grab_desc(session, u) may end, and the text it returns
GrabResults(u) ==
    IF ~PassesUrlCheck(u) THEN {<<"invalid", InvalidUrl>>}
    ELSE {<<o, DescFor(u, o)>> : o \in Outcomes(u) \ {"meta"}} \cup
         {<<"meta", t>> : t \in IF "meta" \in Outcomes(u)
                                THEN PageDescriptions(u) ELSE {}}

\* what fetch_meta_descriptions may return for the links: one result per
\* link, in the order of the links
RECURSIVE BatchResults(_)
BatchResults(links) ==
    IF links = <<>> THEN {<<>>}
    ELSE {<<g>> \o rest : g \in GrabResults(Head(links)),
                          rest \in BatchResults(Tail(links))}

\* str.startswith(word) on a text of words
TextStartsWith(t, word) == Len(t) >= 1 /\ t[1] = word

\* lines 198, 223: the test that sends the row to its snippet
FallsBack(meta) ==
    TextStartsWith(meta, "HTTP") \/ TextStartsWith(meta, "Error")

\* lines 196-199, 222-224: the body of the zip loop for one row
Enriched(row, meta, lookup) ==
    LET appended == Append(row, IF meta # <<>> THEN meta ELSE NoMetaDesc)
    IN  IF FallsBack(meta)
        THEN [appended EXCEPT ![Len(appended)] =
                 LookupGet(lookup, row[2], NoMetaDesc)]
        ELSE appended

StoreInit ==
    /\ spc = "normalise"
    /\ section \in SectionSheets
    /\ records \in SeqsUpTo(RawRecords, MaxRecords)
    /\ news_rows = <<>>
    /\ snippet_lookup = <<>>
    /\ news_meta = <<>>
    /\ meta_kind = <<>>
    /\ zipped = 0
    /\ sheet_rows = Absent

\* lines 181-186, 208-213
Normalise ==
    /\ spc = "normalise"
    /\ news_rows' = [i \in 1..Len(records) |-> RowOf(records[i])]
    /\ spc' = "dedupe"
    /\ UNCHANGED <<section, records, snippet_lookup, news_meta, meta_kind,
                   zipped, sheet_rows>>
    /\ UNCHANGED <<gateVars, trendVars, dedupeVars, enrichVars, sheetVars>>

\* lines 190-191, 217-218
DedupeAndIndex ==
    /\ spc = "dedupe"
    /\ LET kept == dedupe_rows(news_rows, 1, CapOf(section))
       IN  /\ news_rows' = kept
           /\ snippet_lookup' = LookupOf(kept)
    /\ spc' = "enrich"
    /\ UNCHANGED <<section, records, news_meta, meta_kind, zipped,
                   sheet_rows>>
    /\ UNCHANGED <<gateVars, trendVars, dedupeVars, enrichVars, sheetVars>>

\* lines 193, 220: asyncio.run(fetch_meta_descriptions([r[1] for r in rows]))
EnrichRows ==
    /\ spc = "enrich"
    /\ \E batch \in
          BatchResults([i \in 1..Len(news_rows) |-> news_rows[i][2]]) :
          /\ meta_kind' = [i \in 1..Len(batch) |-> batch[i][1]]
          /\ news_meta' = [i \in 1..Len(batch) |-> batch[i][2]]
    /\ zipped' = 0
    /\ spc' = "zip"
    /\ UNCHANGED <<section, records, news_rows, snippet_lookup, sheet_rows>>
    /\ UNCHANGED <<gateVars, trendVars, dedupeVars, enrichVars, sheetVars>>

\* lines 194-199, 221-224: one iteration of the zip loop
ZipRow ==
    /\ spc = "zip"
    /\ zipped < Len(news_rows)
    /\ zipped < Len(news_meta)
    /\ news_rows' = [news_rows EXCEPT ![zipped + 1] =
                        Enriched(@, news_meta[zipped + 1], snippet_lookup)]
    /\ zipped' = zipped + 1
    /\ UNCHANGED <<spc, section, records, snippet_lookup, news_meta,
                   meta_kind, sheet_rows>>
    /\ UNCHANGED <<gateVars, trendVars, dedupeVars, enrichVars, sheetVars>>

\* lines 201-205, 226-230: the loop is over, the rows go to the worksheet
WriteRows ==
    /\ spc = "zip"
    /\ ~(zipped < Len(news_rows) /\ zipped < Len(news_meta))
    /\ sheet_rows' = Some(news_rows)
    /\ spc' = "stored"
    /\ UNCHANGED <<section, records, news_rows, snippet_lookup, news_meta,
                   meta_kind, zipped>>
    /\ UNCHANGED <<gateVars, trendVars, dedupeVars, enrichVars, sheetVars>>

StoreBlockNext ==
    \/ Normalise
    \/ DedupeAndIndex
    \/ EnrichRows
    \/ ZipRow
    \/ WriteRows

-----------------------------------------------------------------------------
(* ensure_worksheet_exists(sheet_obj, title) and overwrite_worksheet(ws,   *)
(* header, rows) on one worksheet title                                    *)

MaxBody   == 2      \* longest list of body rows
MaxWrites == 2      \* calls of overwrite_worksheet with the same arguments

DefaultRows == 100  \* add_worksheet(rows="100")
DefaultCols == 20   \* add_worksheet(cols="20")

\* a grid: its extent and its non-empty cells <<row, column, text>>
Grid(n, k, cells) == [nrows |-> n, ncols |-> k, cells |-> cells]

\* the text every cell of an earlier run's worksheet holds
StaleText == <<"stale">>

FilledGrid(n, k) == Grid(n, k, {<<r, c, StaleText>> : r \in 1..n, c \in 1..k})

\* what the spreadsheet may hold under the title before the call: no such
\* worksheet, a fresh empty one, or the rows of an earlier run
PriorSheets ==
    {Absent, Some(Grid(DefaultRows, DefaultCols, {})),
     Some(FilledGrid(2, 2)), Some(FilledGrid(4, 3))}

\* lines 236, 244: the header of a trends worksheet
TrendsHeader == <<<<"Query">>, <<"Value">>>>

\* lines 233, 241: q.get("query"), q.get("value"): the text, or None when
\* the key is missing
QueryValues == {<<"asx", "200">>, NoneVal}
ValueValues == {<<"100">>, NoneVal}
TrendRows == {<<q, v>> : q \in QueryValues, v \in ValueValues}

\* gspread Worksheet.resize: the grid takes the new extent; cells inside it
\* keep their contents, cells outside it are dropped
Resized(g, n, k) ==
    Grid(n, k, {cell \in g.cells : cell[1] <= n /\ cell[2] <= k})

\* gspread Worksheet.update(range_name="A1", values=...): values.update of
\* the Sheets API writes each value into its cell; a null (None) value is
\* skipped and leaves its cell as it was, an empty text clears the cell
Updated(g, values) ==
    LET written_at == {p \in UNION {{<<r, c>> : c \in 1..Len(values[r])} :
                                        r \in 1..Len(values)} :
                          values[p[1]][p[2]] # NoneVal}
        kept == {cell \in g.cells : <<cell[1], cell[2]>> \notin written_at}
        new  == {<<p[1], p[2], values[p[1]][p[2]]>> : p \in
                    {q \in written_at : values[q[1]][q[2]] # <<>>}}
    IN  Grid(g.nrows, g.ncols, kept \cup new)

SheetInit ==
    /\ wpc = "ensure"
    /\ ws \in PriorSheets
    /\ header = TrendsHeader
    /\ body \in SeqsUpTo(TrendRows, MaxBody)
    /\ writes = 0
    /\ first_grid = Absent

\* line 121: the worksheet exists
EnsureFinds ==
    /\ wpc = "ensure"
    /\ ws # Absent
    /\ wpc' = "resize"
    /\ UNCHANGED <<ws, header, body, writes, first_grid>>
    /\ UNCHANGED <<gateVars, trendVars, dedupeVars, enrichVars, storeVars>>

\* lines 122-123: WorksheetNotFound, add_worksheet(rows="100", cols="20")
EnsureCreates ==
    /\ wpc = "ensure"
    /\ ws = Absent
    /\ ws' = Some(Grid(DefaultRows, DefaultCols, {}))
    /\ wpc' = "resize"
    /\ UNCHANGED <<header, body, writes, first_grid>>
    /\ UNCHANGED <<gateVars, trendVars, dedupeVars, enrichVars, storeVars>>

\* line 127
Resize ==
    /\ wpc = "resize"
    /\ ws' = Some(Resized(Val(ws), Len(body) + 1, Len(header)))
    /\ wpc' = "update"
    /\ UNCHANGED <<header, body, writes, first_grid>>
    /\ UNCHANGED <<gateVars, trendVars, dedupeVars, enrichVars, storeVars>>

\* lines 128-132
Update ==
    /\ wpc = "update"
    /\ ws' = Some(Updated(Val(ws), <<header>> \o body))
    /\ writes' = writes + 1
    /\ first_grid' = IF writes = 0 THEN ws' ELSE first_grid
    /\ wpc' = "written"
    /\ UNCHANGED <<header, body>>
    /\ UNCHANGED <<gateVars, trendVars, dedupeVars, enrichVars, storeVars>>

\* the next run stores the same header and rows under the same title
WriteAgain ==
    /\ wpc = "written"
    /\ writes < MaxWrites
    /\ wpc' = "ensure"
    /\ UNCHANGED <<ws, header, body, writes, first_grid>>
    /\ UNCHANGED <<gateVars, trendVars, dedupeVars, enrichVars, storeVars>>

SheetNext ==
    \/ EnsureFinds
    \/ EnsureCreates
    \/ Resize
    \/ Update
    \/ WriteAgain

-----------------------------------------------------------------------------
(* The specifications: each machine runs with the others switched off *)

GateOff ==
    /\ clock = 0
    /\ metaA2 = Absent
    /\ metaB2 = NoneVal
    /\ a2_run = 0
    /\ invocations = 0
    /\ pc = [p \in Sessions |-> "off"]
    /\ cooldown_hours = [p \in Sessions |-> DefaultCooldown]
    /\ now_utc = [p \in Sessions |-> Naive(0)]
    /\ last_run_time_str = [p \in Sessions |-> Absent]
    /\ last_run_utc = [p \in Sessions |-> Absent]
    /\ last_summary = [p \in Sessions |-> NoneVal]
    /\ summary_text = [p \in Sessions |-> NoneVal]
    /\ result = [p \in Sessions |-> Absent]
    /\ err = [p \in Sessions |-> ""]
    /\ calls = [p \in Sessions |-> <<>>]
    /\ run = [p \in Sessions |-> 0]

TrendsOff ==
    /\ mpc = "off"
    /\ news_data = <<>>
    /\ top_stories_data = <<>>
    /\ attempts = 0
    /\ sleeps = <<>>
    /\ tcalls = 0
    /\ searches = <<>>
    /\ results = Absent
    /\ trends_ret = Absent
    /\ merr = ""
    /\ written = <<>>

DedupeOff ==
    /\ dpc = "off"
    /\ rows = <<>>
    /\ key_index = 0
    /\ keep_n = 0
    /\ idx = 0
    /\ seen = {}
    /\ out = <<>>

EnrichOff ==
    /\ epc = "off"
    /\ urls = <<>>
    /\ limit = 0
    /\ sem = 0
    /\ task = <<>>
    /\ resp = <<>>
    /\ ret = <<>>
    /\ gets = <<>>
    /\ finished = <<>>
    /\ gathered = Absent

StoreOff ==
    /\ spc = "off"
    /\ section = ""
    /\ records = <<>>
    /\ news_rows = <<>>
    /\ snippet_lookup = <<>>
    /\ news_meta = <<>>
    /\ meta_kind = <<>>
    /\ zipped = 0
    /\ sheet_rows = Absent

SheetOff ==
    /\ wpc = "off"
    /\ ws = Absent
    /\ header = <<>>
    /\ body = <<>>
    /\ writes = 0
    /\ first_grid = Absent

OthersOff == StoreOff /\ SheetOff

Init == GateInit /\ TrendsOff /\ DedupeOff /\ EnrichOff /\ OthersOff
Next == GateNext
Spec == Init /\ [][Next]_vars

InitTrends == GateOff /\ TrendsInit /\ DedupeOff /\ EnrichOff /\ OthersOff
SpecTrends == InitTrends /\ [][TrendsNext]_vars

InitDedupe == GateOff /\ TrendsOff /\ DedupeInit /\ EnrichOff /\ OthersOff
SpecDedupe == InitDedupe /\ [][DedupeNext]_vars

InitEnrich == GateOff /\ TrendsOff /\ DedupeOff /\ EnrichInit /\ OthersOff
SpecEnrich == InitEnrich /\ [][EnrichNext]_vars

InitStore == /\ GateOff /\ TrendsOff /\ DedupeOff /\ EnrichOff
             /\ StoreInit /\ SheetOff
SpecStore == InitStore /\ [][StoreBlockNext]_vars

InitSheet == /\ GateOff /\ TrendsOff /\ DedupeOff /\ EnrichOff
             /\ StoreOff /\ SheetInit
SpecSheet == InitSheet /\ [][SheetNext]_vars



-----------------------------------------------------------------------------
(* The cooldown gate: what the calls are expected to do *)

\* the session's call has read a recorded run and has left the gate
Decided(p) == last_run_utc[p] # Absent /\ pc[p] # "gate"

\* now_utc - last_run, in ticks, as instants (whatever tzinfo they carry)
SinceLastRun(p) == now_utc[p].t - Val(last_run_utc[p]).t

\* the remote calls of a call that only reads the Metadata row
GateCalls == <<"cell A2", "cell B2">>

\* the remote calls of a complete READY call, in the order of the code
ReadyCalls == GateCalls \o
    <<"fetch_google_news", "fetch_google_top_stories", "fetch_google_trends",
      "overwrite_worksheet", "overwrite_worksheet", "overwrite_worksheet",
      "overwrite_worksheet", "read_data", "summarize_data", "append_row",
      "update A2", "update B2">>

Wrote(p, what) == \E i \in 1..Len(calls[p]) : calls[p][i] = what

\* C1: a call that finds a recorded run younger than cooldown_hours returns
\* the cached summary with a positive remaining time, having made no
\* retrieval, summarization or Metadata update call, and does not raise.
C1_CoolingServesCache ==
    \A p \in Sessions :
        (Decided(p) /\ SinceLastRun(p) < cooldown_hours[p] * HourTicks)
        => /\ pc[p] = "done"
           /\ result[p] # Absent
           /\ Val(result[p]).kind = "cached"
           /\ Val(result[p]).summary = last_summary[p]
           /\ Val(result[p]).remain > 0
           /\ calls[p] = GateCalls

\* C2: a call that finds a recorded run at least cooldown_hours old is not
\* stopped by the gate; when it ends without a remote failure it has run
\* retrieval, summarization and the Metadata update in that order and
\* returns the new summary, which is the one stored.
C2_ReadyRunsPipeline ==
    \A p \in Sessions :
        (Decided(p) /\ SinceLastRun(p) >= cooldown_hours[p] * HourTicks)
        => /\ pc[p] = "raised" => err[p] = "APIError"
           /\ pc[p] = "done" =>
                 /\ calls[p] = ReadyCalls
                 /\ result[p] = Some([kind |-> "fresh",
                                      summary |-> summary_text[p],
                                      remain |-> 0])

\* C3: a call that ended by raising has not written the last-run timestamp.
C3_FailedRunKeepsTimestamp ==
    \A p \in Sessions : pc[p] = "raised" => ~Wrote(p, "update A2")

\* A call that raised before set_last_run_info was entered (in the gate, in
\* retrieval or in summarization) has written no Metadata cell.
FailureBeforePersistKeepsMetadata ==
    \A p \in Sessions :
        (pc[p] = "raised" /\ Len(calls[p]) < Len(ReadyCalls) - 1)
        => ~Wrote(p, "update A2") /\ ~Wrote(p, "update B2")


-----------------------------------------------------------------------------
(* fetch_google_trends: what the retry loop is expected to do *)

\* the list a response holds under related_queries.<key>, [] when missing
ListUnder(r, key) ==
    IF r.related = Absent THEN <<>>
    ELSE IF key = "rising"
         THEN (IF Val(r.related).rising = Absent THEN <<>>
               ELSE Val(Val(r.related).rising))
         ELSE (IF Val(r.related).top = Absent THEN <<>>
               ELSE Val(Val(r.related).top))

\* C4: when fetch_google_trends has returned after k rate-limited calls, it
\* made k + 1 calls (k < 5), slept 10, 20, 40, ... (10 * 2^i, i < k) in that
\* order, returned the (rising, top) pair of the last call, and makes no
\* call afterwards; after 3 rate limits: 4 calls and sleeps 10, 20, 40.
C4_RetryThenSuccess ==
    trends_ret # Absent =>
        /\ attempts < 5
        /\ tcalls = attempts + 1
        /\ sleeps = SubSeq(<<10, 20, 40, 80, 160>>, 1, attempts)
        /\ attempts = 3 => (tcalls = 4 /\ sleeps = <<10, 20, 40>>)
        /\ trends_ret = Some(<<ListUnder(Val(results), "rising"),
                               ListUnder(Val(results), "top")>>)

\* the 4th call succeeds after three rate limits and returns a rising query
C4_Witness ==
    /\ trends_ret # Absent
    /\ attempts = 3
    /\ tcalls = 4
    /\ Val(trends_ret)[1] = <<"asx 200">>
    /\ mpc = "finished"

\* C5: never more than 5 trends calls; after 5 rate-limited calls the
\* function has not returned a result and main() goes no further; the
\* RuntimeError comes after exactly 5 calls and is not a (possibly empty)
\* result.
C5_ExhaustionFails ==
    /\ tcalls <= 5
    /\ attempts = 5 =>
          /\ tcalls = 5
          /\ trends_ret = Absent
          /\ mpc \in {"trends", "raised"}
    /\ merr = "RuntimeError" =>
          /\ tcalls = 5
          /\ Len(sleeps) = 5
          /\ trends_ret = Absent
          /\ mpc = "raised"
          /\ written = <<>>

\* five rate-limited calls ended in the RuntimeError
C5_Witness ==
    /\ merr = "RuntimeError"
    /\ mpc = "raised"
    /\ tcalls = 5


-----------------------------------------------------------------------------
(* dedupe_rows: what the output is expected to be *)

\* the rows of rws whose key occurs at no earlier position, in input order
RECURSIVE FirstOccurrences(_, _, _)
FirstOccurrences(rws, k, n) ==
    IF n = 0 THEN <<>>
    ELSE LET before == FirstOccurrences(rws, k, n - 1)
         IN  IF \E j \in 1..(n - 1) : rws[j][k + 1] = rws[n][k + 1]
             THEN before
             ELSE Append(before, rws[n])

IsPrefix(a, b) == Len(a) <= Len(b) /\ a = SubSeq(b, 1, Len(a))

DistinctKeys(rws, k) ==
    \A i, j \in 1..Len(rws) : rws[i][k + 1] = rws[j][k + 1] => i = j

DedupeContract ==
    /\ DistinctKeys(out, key_index)
    /\ Len(out) <= keep_n
    /\ IsPrefix(out, FirstOccurrences(rows, key_index, Len(rows)))

\* C6: the output of dedupe_rows has no two rows with the same key, has at
\* most keep_n rows, and is a prefix of the first occurrences of the
\* distinct keys in input order.
C6_DedupeContract == dpc = "returned" => DedupeContract

\* C7: for an input of at least keep_n rows whose keys are all distinct,
\* the output is the first keep_n rows.
C7_ExactCap ==
    (dpc = "returned" /\ Len(rows) >= keep_n /\ DistinctKeys(rows, key_index))
    => (Len(out) = keep_n /\ out = SubSeq(rows, 1, keep_n))

\* Both hold of the code when the cap is at least 1.
DedupeContractPositiveCap ==
    (dpc = "returned" /\ keep_n >= 1) => DedupeContract

ExactCapPositiveCap ==
    (dpc = "returned" /\ keep_n >= 1 /\ Len(rows) >= keep_n
        /\ DistinctKeys(rows, key_index))
    => out = SubSeq(rows, 1, keep_n)


-----------------------------------------------------------------------------
(* fetch_meta_descriptions: what the call is expected to do *)

InFlight == Cardinality({i \in Indexes : task[i] = "inflight"})

\* the description of url u when its request, if any, ended with o
Described(u, o) ==
    IF o = "none" THEN <<"Invalid", "URL">>
    ELSE IF o = "404" THEN <<"HTTP", "404">>
    ELSE IF o = "nometa" THEN <<"No", "Meta", "Description">>
    ELSE IF o = "exception" THEN <<"Error", "Fetching", "Description">>
    ELSE <<"About", "the", "page", "at">> \o u

\* C8: whatever the order in which the requests end, the returned list has
\* the length of urls and its i-th element is the description of urls[i].
C8_ResultsInInputOrder ==
    epc = "returned" =>
        /\ Len(Val(gathered)) = Len(urls)
        /\ \A i \in 1..Len(urls) :
              Val(gathered)[i] = Described(urls[i], resp[i])

\* three urls under limit 2 (L < k): the second request ended first, the
\* first one last, and the list came back in input order
C8_Witness ==
    /\ epc = "returned"
    /\ limit = 2
    /\ urls = <<UrlHttpA, UrlHttpsB, UrlHttpA>>
    /\ finished = <<2, 3, 1>>
    /\ resp = <<"404", "meta", "nometa">>

\* C9: never more than limit requests in flight; once the call has returned
\* every url that passes the url check was requested exactly once and no
\* other url was requested.
C9_BoundedFanOut ==
    /\ InFlight <= limit
    /\ \A i \in 1..Len(urls) : gets[i] <= 1
    /\ epc = "returned" =>
          \A i \in 1..Len(urls) :
              gets[i] = IF urls[i] # <<>>
                           /\ StartsWith(urls[i], <<"h", "t", "t", "p">>)
                        THEN 1 ELSE 0

\* the limit is reached while a url still waits for its turn
C9_Witness ==
    /\ Len(urls) = 3
    /\ limit = 2
    /\ InFlight = 2
    /\ task[3] = "waiting"
    /\ PassesUrlCheck(urls[3])

\* C10: a url that is empty or not an absolute http(s) url gets the
\* sentinel "Invalid URL" and no request is made for it.
C10_InvalidUrlNoRequest ==
    \A i \in 1..Len(urls) :
        (task[i] = "done" /\ ~HasHttpScheme(urls[i]))
        => (ret[i] = <<"Invalid", "URL">> /\ gets[i] = 0)

\* The same for the urls the code's own check rejects (empty, or not
\* starting with "http"), among them "not-a-url" and "No Link".
RejectedUrlNoRequest ==
    \A i \in 1..Len(urls) :
        (task[i] = "done"
            /\ (urls[i] = <<>> \/ ~StartsWith(urls[i], <<"h", "t", "t", "p">>)))
        => (ret[i] = <<"Invalid", "URL">> /\ gets[i] = 0)

\* C15: a url whose request or parse raised gets the sentinel "Error
\* Fetching Description"; every other finished url has the description its
\* own outcome gives; fetch_meta_descriptions does not raise, and what it
\* returns holds one result per url, the failed ones included.
C15_FailuresRecoveredLocally ==
    /\ epc # "raised"
    /\ \A i \in 1..Len(urls) :
          task[i] = "done" =>
              ret[i] = IF resp[i] = "exception"
                       THEN <<"Error", "Fetching", "Description">>
                       ELSE Described(urls[i], resp[i])
    /\ epc = "returned" =>
          /\ Len(Val(gathered)) = Len(urls)
          /\ \A i \in 1..Len(urls) : Val(gathered)[i] = ret[i]

\* the second of three requests raised; the call returned the sentinel for
\* it between the descriptions of the two others
C15_Witness ==
    /\ epc = "returned"
    /\ urls = <<UrlHttpA, UrlHttpsB, UrlHttpA>>
    /\ resp = <<"meta", "exception", "404">>
    /\ Val(gathered) = <<MetaOf(UrlHttpA), ErrorFetch, HttpStatus("404")>>

-----------------------------------------------------------------------------
(* store_data_in_google_sheets: what the stored rows are expected to be *)

\* the fetch of the i-th row's link ended in a status other than 200 or in an
\* exception
FetchFailed(i) == meta_kind[i] \in {"404", "exception"}

StoredRows == Val(sheet_rows)

\* C11: in every stored row the description is the row's snippet exactly when
\* the fetch of its link ended in a non-200 status or in an exception; after
\* any other outcome (a page description whatever its text, "Invalid URL",
\* "No Meta Description") the description is what the enrichment returned.
C11_SnippetFallbackPartition ==
    spc = "stored" =>
        \A i \in 1..Len(StoredRows) :
            IF FetchFailed(i)
            THEN StoredRows[i][4] = StoredRows[i][3]
            ELSE StoredRows[i][4] = news_meta[i]

\* the same with the page descriptions that begin with "HTTP" or "Error"
\* left aside: this much holds
SnippetFallbackOnSentinels ==
    spc = "stored" =>
        \A i \in 1..Len(StoredRows) :
            IF FetchFailed(i)
            THEN StoredRows[i][4] = StoredRows[i][3]
            ELSE FallsBack(news_meta[i]) \/ StoredRows[i][4] = news_meta[i]

\* a field of a stored row that holds a text
Present(f) == f # <<>> /\ f # NoneVal

\* the field a raw value is expected to become
FieldFor(o, placeholder) ==
    IF o # Absent /\ Val(o) # <<>> THEN Val(o) ELSE placeholder

\* C19: every row written to "Google News" / "Top Stories" has exactly four
\* fields, each of them a non-empty text; its first three fields are those
\* of a raw record with "No Title" / "No Link" / "No Snippet" in the place
\* of a missing or empty value.
C19_RowShape ==
    spc = "stored" =>
        \A i \in 1..Len(StoredRows) :
            /\ Len(StoredRows[i]) = 4
            /\ \A f \in 1..4 : Present(StoredRows[i][f])
            /\ \E n \in 1..Len(records) :
                   SubSeq(StoredRows[i], 1, 3) =
                       << FieldFor(records[n].title, <<"No", "Title">>),
                          FieldFor(records[n].link,
                                   <<"N", "o", " ", "L", "i", "n", "k">>),
                          FieldFor(records[n].snippet, <<"No", "Snippet">>) >>

\* a record without a snippet whose page answered 404 and a record with
\* empty values: the stored rows hold the placeholders, and the first
\* one's description fell back to "No Snippet"
C19_Witness ==
    /\ spc = "stored"
    /\ section = "Top Stories"
    /\ meta_kind = <<"404", "invalid">>
    /\ StoredRows =
          << << <<"Banks", "slip">>, UrlHttpsB, NoSnippet, NoSnippet >>,
             << NoTitle, UrlNoLink, NoSnippet, InvalidUrl >> >>
    /\ records[2] = Record(Some(<<>>), Some(<<>>), Some(<<>>))

\* the raw records without a link: the key is missing or its value empty
Linkless == {n \in 1..Len(records) :
                records[n].link = Absent \/ Val(records[n].link) = <<>>}

\* the stored rows whose link is the placeholder "No Link"
NoLinkRows == {i \in 1..Len(StoredRows) :
                  StoredRows[i][2] = <<"N", "o", " ", "L", "i", "n", "k">>}

\* C21: at most one stored row has the link "No Link"; it carries the title
\* and the snippet of the first raw record without a link, and every later
\* record without a link is dropped, whatever its title and snippet.
C21_PlaceholderLinksCollapse ==
    spc = "stored" =>
        /\ Cardinality(NoLinkRows) <= 1
        /\ Cardinality(NoLinkRows) = IF Linkless = {} THEN 0 ELSE 1
        /\ \A i \in NoLinkRows :
              LET first == CHOOSE n \in Linkless :
                               \A k \in Linkless : n <= k
              IN  /\ StoredRows[i][1] =
                         FieldFor(records[first].title, <<"No", "Title">>)
                  /\ StoredRows[i][3] =
                         FieldFor(records[first].snippet, <<"No", "Snippet">>)

\* two records without a link and with different titles and snippets: only
\* the first one is stored
C21_Witness ==
    /\ spc = "stored"
    /\ records = << Record(Some(<<"Wire", "story">>), Absent,
                           Some(<<"No", "url", "given">>)),
                    Record(Absent, Absent, Absent) >>
    /\ Len(StoredRows) = 1
    /\ StoredRows[1][1] = <<"Wire", "story">>
    /\ StoredRows[1][2] = UrlNoLink

-----------------------------------------------------------------------------
(* The Metadata row: what its two cells are expected to hold *)

\* the run that produced the stored summary: SummaryOf(r) names its run
SummaryRun == metaB2[2]

\* C12: in every reachable state the stored timestamp and the stored summary
\* come from the same pipeline run: the row is empty (no timestamp and no
\* summary), or the summary is the one of the run that wrote the timestamp.
C12_MetadataFromOneRun ==
    IF metaA2 = Absent
    THEN metaB2 = NoneVal
    ELSE metaB2 # NoneVal /\ SummaryRun = a2_run

-----------------------------------------------------------------------------
(* main() and fetch_google_trends: errors, ordering and the time slept *)

CallsTo(endpoint) ==
    {i \in 1..Len(searches) : searches[i].endpoint = endpoint}

RateLimitedCalls ==
    {i \in CallsTo("trends") : searches[i].outcome = "TooManyRequestsError"}

\* a call that raised something fetch_google_trends does not retry: any
\* error of the news or top stories call, any error but the rate-limit
\* signal of a trends call
Unretried(i) ==
    /\ searches[i].outcome # "ok"
    /\ searches[i].endpoint = "trends" =>
           searches[i].outcome # "TooManyRequestsError"

\* C13: a search call that raises anything but the trends rate-limit signal
\* is the last search call of the run: its error is the one main() ends
\* with, at once; no sleep follows it (the sleeps are those of the
\* rate-limited trends calls only); the news and the top stories search are
\* called at most once each.
C13_OtherErrorsNotRetried ==
    /\ \A i \in 1..Len(searches) :
          Unretried(i) =>
              /\ i = Len(searches)
              /\ mpc = "raised"
              /\ merr = searches[i].outcome
    /\ Len(sleeps) = Cardinality(RateLimitedCalls)
    /\ Cardinality(CallsTo("news")) <= 1
    /\ Cardinality(CallsTo("top")) <= 1
    /\ Cardinality(CallsTo("trends")) = tcalls

\* the third trends call, after two rate limits, raises another error
C13_Witness ==
    /\ mpc = "raised"
    /\ merr = "SearchError"
    /\ tcalls = 3
    /\ sleeps = <<10, 20>>
    /\ searches[Len(searches)] =
           [endpoint |-> "trends", outcome |-> "SearchError"]

-----------------------------------------------------------------------------
(* overwrite_worksheet: what the worksheet is expected to hold *)

\* the text of the cell at (r, c), empty when the grid holds nothing there
CellAt(g, r, c) ==
    IF \E cell \in g.cells : cell[1] = r /\ cell[2] = c
    THEN (CHOOSE cell \in g.cells : cell[1] = r /\ cell[2] = c)[3]
    ELSE <<>>

\* what a value reads back as: None is an empty cell
ShownAs(v) == IF v = NoneVal THEN <<>> ELSE v

\* C14: after ensure_worksheet_exists and overwrite_worksheet(ws, h, R), for
\* every prior content: the worksheet exists with len(R) + 1 rows and len(h)
\* columns, row 1 is h and row i + 1 is R[i], cell by cell (so nothing of
\* the prior contents is left), and a second write of the same (h, R)
\* leaves what the first one left.
C14_FullOverwrite ==
    wpc = "written" =>
        /\ ws # Absent
        /\ Val(ws).nrows = Len(body) + 1
        /\ Val(ws).ncols = Len(header)
        /\ \A c \in 1..Len(header) : CellAt(Val(ws), 1, c) = header[c]
        /\ \A i \in 1..Len(body) : \A c \in 1..Len(header) :
               CellAt(Val(ws), i + 1, c) = ShownAs(body[i][c])
        /\ writes = MaxWrites => ws = first_grid

\* the same, as far as it holds: extent, header, every cell whose value is
\* not None, and the second write
OverwriteOfGivenValues ==
    wpc = "written" =>
        /\ ws # Absent
        /\ Val(ws).nrows = Len(body) + 1
        /\ Val(ws).ncols = Len(header)
        /\ \A c \in 1..Len(header) : CellAt(Val(ws), 1, c) = header[c]
        /\ \A i \in 1..Len(body) : \A c \in 1..Len(header) :
               body[i][c] # NoneVal =>
                   CellAt(Val(ws), i + 1, c) = body[i][c]
        /\ writes = MaxWrites => ws = first_grid

-----------------------------------------------------------------------------
(* The cooldown gate under two interleaved calls, and on a first run *)

\* the call has read both Metadata cells and has left the gate
PastGate(p) ==
    /\ Len(calls[p]) >= Len(GateCalls)
    /\ pc[p] \notin {"get_a2", "get_b2", "gate"}

\* what the call read lets it run: no timestamp, or one at least
\* cooldown_hours old
ReadLetsRun(p) ==
    \/ last_run_time_str[p] = Absent
    \/ /\ last_run_utc[p] # Absent
       /\ SinceLastRun(p) >= cooldown_hours[p] * HourTicks

\* the gate let the call through to the pipeline
WentReady(p) ==
    /\ ~(pc[p] = "raised" /\ err[p] = "TypeError")
    /\ ~(result[p] # Absent /\ Val(result[p]).kind = "cached")

\* C16: two interleaved calls with the app's cooldown that both read the
\* same Metadata row, its timestamp absent or older than the cooldown
\* (neither read a timestamp written by the other), both decide READY:
\* neither is stopped at the gate.
C16_BothDecideReady ==
    \A p \in Sessions : \A q \in Sessions \ {p} :
        (/\ PastGate(p) /\ PastGate(q)
         /\ cooldown_hours[p] = DefaultCooldown
         /\ cooldown_hours[q] = DefaultCooldown
         /\ last_run_time_str[p] = last_run_time_str[q]
         /\ ReadLetsRun(p) /\ ReadLetsRun(q))
        => (WentReady(p) /\ WentReady(q))

\* on an empty Metadata row, with the cooldown the app passes, the gate is
\* no lock: a call that read no timestamp goes through whatever the other
\* call is doing
NeverRunGoesThrough ==
    \A p \in Sessions :
        (/\ PastGate(p)
         /\ last_run_time_str[p] = Absent
         /\ cooldown_hours[p] = DefaultCooldown)
        => WentReady(p)

\* both calls read the empty row, both ran the pipeline and both wrote the
\* Metadata row
BothRanAndWrote ==
    \A p \in Sessions :
        /\ pc[p] = "done"
        /\ last_run_time_str[p] = Absent
        /\ calls[p] = ReadyCalls

\* C17: a call that finds no timestamp in the Metadata row runs the
\* pipeline whatever its cooldown_hours: it never returns the cached
\* summary (which is None on such a row).
C17_FirstRunAlwaysReady ==
    \A p \in Sessions :
        (PastGate(p) /\ last_run_time_str[p] = Absent) =>
            /\ result[p] # Absent => Val(result[p]).kind = "fresh"
            /\ pc[p] = "done" => calls[p] = ReadyCalls

\* the same for cooldown_hours up to 9999: this much holds
FirstRunReadyUpTo9999 ==
    \A p \in Sessions :
        (/\ PastGate(p)
         /\ last_run_time_str[p] = Absent
         /\ cooldown_hours[p] <= NeverRunElapsed) =>
            /\ result[p] # Absent => Val(result[p]).kind = "fresh"
            /\ pc[p] = "done" => calls[p] = ReadyCalls

RECURSIVE SumOf(_)
SumOf(s) == IF s = <<>> THEN 0 ELSE Head(s) + SumOf(Tail(s))

\* C20: over one call of fetch_google_trends the i-th sleep (i = 1..5) lasts
\* 10 * 2^(i-1) seconds: 10, 20, 40, 80, 160 in that order; no sleep is
\* longer than 160 seconds, there are at most five, and when the call
\* fails for good it has slept all five, 310 seconds in total.
C20_WorstCaseBackoff ==
    /\ Len(sleeps) <= 5
    /\ \A i \in 1..Len(sleeps) :
          /\ sleeps[i] = 10 * 2^(i - 1)
          /\ sleeps[i] <= 160
    /\ SumOf(sleeps) <= 310
    /\ merr = "RuntimeError" =>
          /\ sleeps = <<10, 20, 40, 80, 160>>
          /\ SumOf(sleeps) = 310

\* the permanent failure, after 310 seconds of sleep, the last one of 160
C20_Witness ==
    /\ merr = "RuntimeError"
    /\ Len(sleeps) = 5
    /\ sleeps[5] = 160
    /\ SumOf(sleeps) = 310

-----------------------------------------------------------------------------
(* main(): the fetches come before the store *)

\* the search calls of a run whose three fetches all returned
AllFetched(log) ==
    /\ Len(log) >= 3
    /\ log[1] = [endpoint |-> "news", outcome |-> "ok"]
    /\ log[2] = [endpoint |-> "top", outcome |-> "ok"]
    /\ log[Len(log)] = [endpoint |-> "trends", outcome |-> "ok"]

\* C18: a worksheet is overwritten only after the news, the top stories and
\* the trends fetch (its retries included) have all returned, and no search
\* call is made once the store has begun; a run that ended with the error
\* of a fetch (a search error or the RuntimeError of the exhausted trends
\* loop) has overwritten none of the four worksheets.
C18_FetchBeforeStore ==
    /\ written # <<>> =>
          /\ AllFetched(searches)
          /\ trends_ret # Absent
          /\ mpc \in {"store", "finished", "raised"}
          /\ merr \in {"", "APIError"}
    /\ merr \in SearchErrors \cup {"RuntimeError"} => written = <<>>
    /\ mpc \in {"news", "top", "trends"} => written = <<>>

\* two worksheets are overwritten after a trends fetch that was retried twice
C18_Witness ==
    /\ written = <<"Google News", "Top Stories">>
    /\ tcalls = 3
    /\ sleeps = <<10, 20>>
    /\ mpc = "store"

=============================================================================
